---------------------------- MODULE Spec2Model ----------------------------
(***************************************************************************)
(* Model of the week-2 pokerbot (precompute_strat/player.py): the card     *)
(* allocation heuristic, the hole assignment, the canonical hole key and   *)
(* the per-board wagering decision of get_actions, driven by the engine's  *)
(* round-start / action-request / round-end callbacks.                     *)
(*                                                                         *)
(* A card is <<rank, suit>> with rank and suit the one-character strings   *)
(* of the engine's format ("9s" is <<"9", "s">>).  A hole is a sequence of *)
(* two cards.  Strengths and random draws are counted in hundredths        *)
(* (0.15 is 15), compared exactly.                                         *)
(***************************************************************************)
EXTENDS Integers, Sequences, FiniteSets, TLC

VARIABLES
    starting_strengths,  \* self.starting_strengths: the table that was read
    board_allocations,   \* self.board_allocations
    hole_strengths,      \* self.hole_strengths
    opponent_moves,      \* self.opponent_moves
    pc,                  \* position of the engine / of the running callback
    round_num,           \* game_state.round_num of the current round
    calls,               \* action requests received in the game
    cards,               \* allocate_cards: set(my_cards)
    cards_remaining,     \* allocate_cards: cards_remaining
    allocated_cards,     \* allocate_cards: allocated_cards
    holes_allocated,     \* allocate_cards: holes_allocated
    my_stack,            \* get_actions: my_stack
    street,              \* get_actions: street
    net_cost,            \* get_actions: net_cost
    my_actions,          \* get_actions: my_actions
    board_i,             \* get_actions: number of boards processed in this call
    board,               \* get_actions: what was read and decided on the last board
    key_holes,           \* hole_list_to_key: the two holes given
    key_out              \* hole_list_to_key: the two keys returned

vars == <<starting_strengths, board_allocations, hole_strengths, opponent_moves,
          pc, round_num, calls, cards, cards_remaining, allocated_cards,
          holes_allocated, my_stack, street, net_cost,
          my_actions, board_i, board, key_holes, key_out>>

alloc_vars == <<cards, cards_remaining, allocated_cards, holes_allocated>>
act_vars == <<my_stack, street, net_cost, my_actions, board_i, board>>
key_vars == <<key_holes, key_out>>
player_vars == <<board_allocations, hole_strengths, opponent_moves>>

---------------------------------------------------------------------------
(* Bounds of the model *)

\* number of cards of DeckOrder the engine deals from when allocation is checked
DeckSize == 9
\* rounds played in a game
MaxRounds == 2
\* action requests in a game
MaxCalls == 2

NUM_BOARDS == 3

---------------------------------------------------------------------------
(* Cards *)

RankOrder == <<"2", "3", "4", "5", "6", "7", "8", "9", "T", "J", "Q", "K", "A">>
SuitOrder == <<"d", "h", "s", "c">>

\* str.isnumeric() on a rank
IsNumeric(rank) ==
    \/ rank = "2" \/ rank = "3" \/ rank = "4" \/ rank = "5"
    \/ rank = "6" \/ rank = "7" \/ rank = "8" \/ rank = "9"

\* int() on a numeric rank
IntOf(rank) ==
    CASE rank = "2" -> 2 [] rank = "3" -> 3 [] rank = "4" -> 4 [] rank = "5" -> 5
      [] rank = "6" -> 6 [] rank = "7" -> 7 [] rank = "8" -> 8 [] rank = "9" -> 9

rank_to_numeric(rank) ==
    IF IsNumeric(rank) THEN IntOf(rank)
    ELSE IF rank = "T" THEN 10
    ELSE IF rank = "J" THEN 11
    ELSE IF rank = "Q" THEN 12
    ELSE IF rank = "K" THEN 13
    ELSE 14

Numeric(card) == rank_to_numeric(card[1])

RECURSIVE SetOrders(_)
\* every order in which a set can be iterated
SetOrders(S) ==
    IF S = {} THEN {<<>>}
    ELSE UNION {{<<x>> \o p : p \in SetOrders(S \ {x})} : x \in S}

Range(s) == {s[k] : k \in 1..Len(s)}

RECURSIVE InsertDesc(_, _)
\* c placed after every card of the descending list s whose rank is >= its own
InsertDesc(s, c) ==
    IF s = <<>> THEN <<c>>
    ELSE IF Numeric(Head(s)) >= Numeric(c) THEN <<Head(s)>> \o InsertDesc(Tail(s), c)
    ELSE <<c>> \o s

RECURSIVE sort_cards_by_rank(_)
\* stable sort by rank, descending
sort_cards_by_rank(s) ==
    IF s = <<>> THEN <<>>
    ELSE InsertDesc(sort_cards_by_rank(SubSeq(s, 1, Len(s) - 1)), s[Len(s)])

---------------------------------------------------------------------------
(* hole_list_to_key *)

hole_list_to_key_swapped(hole) ==
    LET rank_1 == hole[1][1]
        rank_2 == hole[2][1]
        suit_string == IF hole[1][2] = hole[2][2] THEN "s" ELSE "o"
    IN  <<rank_1, rank_2, suit_string>>

hole_list_to_key(hole) ==
    LET card_1 == hole[1]
        card_2 == hole[2]
        rank_1 == card_1[1]
        suit_1 == card_1[2]
        rank_2 == card_2[1]
        suit_2 == card_2[2]
        numeric_1 == rank_to_numeric(rank_1)
        numeric_2 == rank_to_numeric(rank_2)
        suited == (suit_1 = suit_2)
        suit_string == IF suited THEN "s" ELSE "o"
    IN  IF numeric_1 >= numeric_2
        THEN <<rank_1, rank_2, suit_string>>
        ELSE <<rank_2, rank_1, suit_string>>

---------------------------------------------------------------------------
(* The strength table read from hole_strengths.csv.  The file's values are *)
(* data: construction may leave any of the tables named in TableNames, and *)
(* starting_strengths holds the name of the one that was read.             *)

TableNames == <<"high", "low", "flat">>

\* rising with the ranks, pairs above everything else
HighStrength(key) ==
    LET hi == rank_to_numeric(key[1])
        lo == rank_to_numeric(key[2])
    IN  IF hi = lo THEN 50 + 3 * hi
        ELSE 2 * hi + lo + (IF key[3] = "s" THEN 4 ELSE 0)

\* self.starting_strengths[key], in hundredths
TableLookup(table, key) ==
    IF table = "high" THEN HighStrength(key)
    ELSE IF table = "low" THEN 112 - HighStrength(key)
    ELSE 50

---------------------------------------------------------------------------
(* allocate_cards *)

MIN_PAIR_VALUE == 5

RECURSIVE FirstSeen(_, _)
\* the distinct values of s in order of first appearance (a dict's key order)
FirstSeen(s, seen) ==
    IF s = <<>> THEN <<>>
    ELSE IF Head(s) \in seen THEN FirstSeen(Tail(s), seen)
    ELSE <<Head(s)>> \o FirstSeen(Tail(s), seen \cup {Head(s)})

\* lines 108-118: the lists of ranks.values(), in the dict's order
GroupByRank(my_cards) ==
    LET order == FirstSeen([k \in 1..Len(my_cards) |-> my_cards[k][1]], {})
    IN  [k \in 1..Len(order) |-> SelectSeq(my_cards, LAMBDA c : c[1] = order[k])]

RECURSIVE PairsFrom(_, _)
\* lines 124-136: the list pairs
PairsFrom(groups, k) ==
    IF k > Len(groups) THEN <<>>
    ELSE LET cs == groups[k]
         IN  (IF Len(cs) = 1 THEN <<>>
              ELSE IF Len(cs) = 2 \/ Len(cs) = 4 THEN cs
              ELSE <<cs[1], cs[2]>>) \o PairsFrom(groups, k + 1)

RECURSIVE SinglesFrom(_, _)
\* lines 124-136: the list singles
SinglesFrom(groups, k) ==
    IF k > Len(groups) THEN <<>>
    ELSE LET cs == groups[k]
         IN  (IF Len(cs) = 1 THEN <<cs[1]>>
              ELSE IF Len(cs) = 2 \/ Len(cs) = 4 THEN <<>>
              ELSE <<cs[3]>>) \o SinglesFrom(groups, k + 1)

pair_is_kept_any(pair) == TRUE

\* line 148: the pair is strong enough to keep
pair_is_kept(pair) == rank_to_numeric(pair[1][1]) >= MIN_PAIR_VALUE

RECURSIVE PairPass(_, _)
\* lines 144-150: the holes the pair pass appends
PairPass(pairs, i) ==
    IF i >= Len(pairs) \div 2 THEN <<>>
    ELSE LET pair == <<pairs[2 * i + 1], pairs[2 * i + 2]>>
         IN  (IF pair_is_kept(pair) THEN <<pair>> ELSE <<>>) \o PairPass(pairs, i + 1)

HoleCards(holes) == UNION {Range(holes[k]) : k \in 1..Len(holes)}

connector_usable_unchecked(card_1, card_2, allocated) ==
    Numeric(card_1) - Numeric(card_2) <= 1

\* line 162: the two cards are close and unused
connector_usable(card_1, card_2, allocated) ==
    /\ Numeric(card_1) - Numeric(card_2) <= 1
    /\ card_1 \notin allocated
    /\ card_2 \notin allocated

RECURSIVE ConnectorPass(_, _, _)
\* lines 156-165: the holes the connector pass appends, scanning from index i
ConnectorPass(sorted_remaining, i, allocated) ==
    IF i > Len(sorted_remaining) - 1 THEN <<>>
    ELSE LET card_1 == sorted_remaining[i]
             card_2 == sorted_remaining[i + 1]
         IN  IF connector_usable(card_1, card_2, allocated)
             THEN <<(<<card_1, card_2>>)>>
                  \o ConnectorPass(sorted_remaining, i + 1, allocated \cup {card_1, card_2})
             ELSE ConnectorPass(sorted_remaining, i + 1, allocated)

\* lines 169-177: the lists of suits.values(), in the dict's order
GroupBySuit(order) ==
    LET suit_order == FirstSeen([k \in 1..Len(order) |-> order[k][2]], {})
    IN  [k \in 1..Len(suit_order) |-> SelectSeq(order, LAMBDA c : c[2] = suit_order[k])]

\* lines 183-196: the holes made of one suit's cards
flush_holes(cs) ==
    IF Len(cs) = 2 \/ Len(cs) = 3 THEN <<(<<cs[1], cs[2]>>)>>
    ELSE IF Len(cs) = 4 THEN <<(<<cs[1], cs[2]>>), (<<cs[3], cs[4]>>)>>
    ELSE <<>>

RECURSIVE FlushPass(_, _)
\* lines 180-196: the holes the flush pass appends
FlushPass(groups, k) ==
    IF k > Len(groups) THEN <<>>
    ELSE flush_holes(groups[k]) \o FlushPass(groups, k + 1)

RECURSIVE FallbackPass(_, _)
\* lines 201-204: the holes the fallback pass appends
FallbackPass(extra_cards, i) ==
    IF i >= Len(extra_cards) \div 2 THEN <<>>
    ELSE <<(<<extra_cards[2 * i + 1], extra_cards[2 * i + 2]>>)>>
         \o FallbackPass(extra_cards, i + 1)

\* lines 208-209: the two closing assertions
AssertionsHold(holes, remaining) == Len(holes) = 3 /\ remaining = {}

---------------------------------------------------------------------------
(* assign_holes *)

RECURSIVE InsertAsc(_, _)
\* x placed after every item of the ascending list s whose strength is <= its own
InsertAsc(s, x) ==
    IF s = <<>> THEN <<x>>
    ELSE IF Head(s)[2] <= x[2] THEN <<Head(s)>> \o InsertAsc(Tail(s), x)
    ELSE <<x>> \o s

RECURSIVE SortByStrength(_)
\* line 229: stable sort of (hole, strength) items by strength, ascending
SortByStrength(s) ==
    IF s = <<>> THEN <<>>
    ELSE InsertAsc(SortByStrength(SubSeq(s, 1, Len(s) - 1)), s[Len(s)])

swap_without_temp(s, a, b) == [s EXCEPT ![a] = s[b]]

\* lines 232-234 and 237-239: the items at positions a and b exchanged
Swap(s, a, b) == [s EXCEPT ![a] = s[b], ![b] = s[a]]

\* lines 225-226: the table strength of a hole
lookup(table, hole_cards, hole) == TableLookup(table, hole_list_to_key(hole))

assign_order_low_swap_first(table, hole_cards, swap_top, swap_low) ==
    LET holes_and_strengths ==
            [k \in 1..Len(hole_cards) |-> <<hole_cards[k], lookup(table, hole_cards, hole_cards[k])>>]
        sorted == SortByStrength(holes_and_strengths)
        after_low == IF swap_low THEN Swap(sorted, 2, 1) ELSE sorted
    IN  IF swap_top THEN Swap(after_low, 3, 2) ELSE after_low

\* lines 222-239: the final order of the (hole, strength) items
AssignOrder(table, hole_cards, swap_top, swap_low) ==
    LET holes_and_strengths ==
            [k \in 1..Len(hole_cards) |-> <<hole_cards[k], lookup(table, hole_cards, hole_cards[k])>>]
        sorted == SortByStrength(holes_and_strengths)
        after_top == IF swap_top THEN Swap(sorted, 3, 2) ELSE sorted
    IN  IF swap_low THEN Swap(after_top, 2, 1) ELSE after_top

---------------------------------------------------------------------------
(* The cards the engine deals from *)

DeckOrder ==
    << <<"2", "d">>, <<"2", "c">>, <<"9", "s">>, <<"9", "h">>, <<"K", "d">>, <<"A", "s">>,
       <<"9", "d">>, <<"5", "d">>, <<"Q", "h">>, <<"2", "h">>, <<"2", "s">>, <<"T", "d">> >>

\* the sets of six distinct cards the engine can deal out of the first n cards
\* of DeckOrder, as sets of positions; round_state.hands[active] lists one of
\* them in any order
HandSets(n) == {T \in SUBSET (1..n) : Cardinality(T) = 6}

CardsAt(idx) == {DeckOrder[k] : k \in idx}

EmptyBoards == << <<>>, <<>>, <<>> >>

\* Python values kept in self.opponent_moves: a list, an action class, None
PyList(items) == <<"list", items>>
RaiseAction == <<"class", "RaiseAction">>
PyNone == <<"NoneType", "None">>
NoMoves == <<PyList(<<>>), PyList(<<>>), PyList(<<>>)>>

\* an entry of my_actions: <<class name>>, with the amount or the cards after it
NoActions == << <<"None">>, <<"None">>, <<"None">> >>
NoBoard == [kind |-> "none"]

---------------------------------------------------------------------------
(* State after __init__ *)

Init ==
    /\ \E t \in 1..Len(TableNames) : starting_strengths = TableNames[t]
    /\ board_allocations = EmptyBoards
    /\ hole_strengths = <<0, 0, 0>>
    /\ opponent_moves = NoMoves
    /\ pc = "idle"
    /\ round_num = 0
    /\ calls = 0
    /\ cards = {}
    /\ cards_remaining = {}
    /\ allocated_cards = {}
    /\ holes_allocated = <<>>
    /\ my_stack = 0
    /\ street = 0
    /\ net_cost = 0
    /\ my_actions = NoActions
    /\ board_i = 0
    /\ board = NoBoard
    /\ key_holes = <<>>
    /\ key_out = <<>>

---------------------------------------------------------------------------
(* handle_new_round: allocate_cards pass by pass, then assign_holes *)

\* lines 262-266 and 108-152: the hand is read, grouped by rank, and the pair
\* pass commits the strong pairs
AllocatePairs(n) ==
    /\ pc = "idle"
    /\ round_num < MaxRounds
    /\ \E idx \in HandSets(n) : \E my_cards \in SetOrders(CardsAt(idx)) :
          LET pairs == PairsFrom(GroupByRank(my_cards), 1)
              holes == PairPass(pairs, 0)
          IN  /\ cards' = Range(my_cards)
              /\ holes_allocated' = holes
              /\ allocated_cards' = HoleCards(holes)
              /\ cards_remaining' = Range(my_cards) \ HoleCards(holes)
    /\ round_num' = round_num + 1
    /\ pc' = "connector"
    /\ UNCHANGED <<starting_strengths, player_vars, calls, act_vars, key_vars>>

\* lines 154-167: the connector pass over the sorted remaining cards
AllocateConnectors ==
    /\ pc = "connector"
    /\ \E sorted_remaining \in {sort_cards_by_rank(o) : o \in SetOrders(cards_remaining)} :
          LET holes == ConnectorPass(sorted_remaining, 1, allocated_cards)
          IN  /\ holes_allocated' = holes_allocated \o holes
              /\ allocated_cards' = allocated_cards \cup HoleCards(holes)
              /\ cards_remaining' = cards_remaining \ (allocated_cards \cup HoleCards(holes))
    /\ pc' = "flush"
    /\ UNCHANGED <<starting_strengths, player_vars, round_num, calls, cards, act_vars, key_vars>>

\* lines 169-198: the flush pass over the remaining cards grouped by suit
AllocateFlushes ==
    /\ pc = "flush"
    /\ \E order \in SetOrders(cards_remaining) :
          LET holes == FlushPass(GroupBySuit(order), 1)
          IN  /\ holes_allocated' = holes_allocated \o holes
              /\ allocated_cards' = allocated_cards \cup HoleCards(holes)
              /\ cards_remaining' = cards_remaining \ (allocated_cards \cup HoleCards(holes))
    /\ pc' = "fallback"
    /\ UNCHANGED <<starting_strengths, player_vars, round_num, calls, cards, act_vars, key_vars>>

\* lines 199-211: the fallback pass, the closing assertions and the return
AllocateExtras ==
    /\ pc = "fallback"
    /\ \E extra_cards \in SetOrders(cards_remaining) :
          LET holes == FallbackPass(extra_cards, 0)
              remaining == cards_remaining \ (allocated_cards \cup HoleCards(holes))
          IN  /\ holes_allocated' = holes_allocated \o holes
              /\ allocated_cards' = allocated_cards \cup HoleCards(holes)
              /\ cards_remaining' = remaining
              /\ pc' = IF AssertionsHold(holes_allocated \o holes, remaining)
                       THEN "assign" ELSE "assert_failed"
    /\ UNCHANGED <<starting_strengths, player_vars, round_num, calls, cards, act_vars, key_vars>>

\* lines 267 and 214-243: assign_holes, with the two random swap draws
AssignHoles ==
    /\ pc = "assign"
    /\ \E swap_top, swap_low \in BOOLEAN :
          LET final == AssignOrder(starting_strengths, holes_allocated, swap_top, swap_low)
          IN  /\ board_allocations' = [i \in 1..NUM_BOARDS |-> final[i][1]]
              /\ hole_strengths' = [i \in 1..NUM_BOARDS |-> final[i][2]]
    /\ pc' = "round"
    /\ UNCHANGED <<starting_strengths, opponent_moves, round_num, calls, alloc_vars,
                   act_vars, key_vars>>

NextAlloc ==
    \/ AllocatePairs(DeckSize)
    \/ AllocateConnectors
    \/ AllocateFlushes
    \/ AllocateExtras
    \/ AssignHoles

SpecAlloc == Init /\ [][NextAlloc]_vars

---------------------------------------------------------------------------
(* handle_round_over *)

\* the locals of allocate_cards and assign_holes are gone once
\* handle_new_round has returned; cards, the hand of round_state.hands[active],
\* stays with the engine for the round (line 316 reads it again)
DropAllocLocals ==
    /\ cards_remaining' = {}
    /\ allocated_cards' = {}
    /\ holes_allocated' = <<>>

\* lines 325-327: the locals of get_actions before its loop starts
FreshActLocals(stack, st) ==
    /\ my_stack' = stack
    /\ street' = st
    /\ net_cost' = 0
    /\ my_actions' = NoActions
    /\ board_i' = 0
    /\ board' = NoBoard

\* lines 291-293: the reset at the end of a round; self.opponent_moves is not
\* among the fields it assigns
HandleRoundOver ==
    /\ pc = "round"
    /\ board_allocations' = EmptyBoards
    /\ hole_strengths' = <<0, 0, 0>>
    /\ pc' = "idle"
    /\ DropAllocLocals
    /\ cards' = {}
    /\ FreshActLocals(0, 0)
    /\ UNCHANGED <<starting_strengths, opponent_moves, round_num, calls, key_vars>>

---------------------------------------------------------------------------
(* get_actions *)

ActionClasses == <<"FoldAction", "CallAction", "CheckAction", "RaiseAction">>

\* line 314: the legal actions the engine gives for a live board: check when
\* nothing is owed, fold or call when something is, raise when it allows one
LegalActions(board_cont_cost, raise_allowed) ==
    {ActionClasses[k] : k \in
        {n \in 1..4 : \/ n \in 1..2 /\ board_cont_cost > 0
                      \/ n = 3 /\ board_cont_cost = 0
                      \/ n = 4 /\ raise_allowed}}

\* list.count(x)
list_count(items, x) == Cardinality({k \in 1..Len(items) : items[k] = x})

\* lines 344-347: the opponent's move appended to this board's history
RecordMove(moves, i, board_cont_cost) ==
    [moves EXCEPT ![i] =
        PyList(Append(moves[i][2], IF board_cont_cost > 0 THEN RaiseAction ELSE PyNone))]

raise_ammount_unclamped(st, my_pips_i, board_cont_cost, pot_total, min_raise, max_raise) ==
    IF st < 3
    THEN my_pips_i + board_cont_cost + (pot_total + board_cont_cost) \div 4
    ELSE my_pips_i + board_cont_cost + (85 * (pot_total + board_cont_cost)) \div 100

\* lines 349-355: the raise target, clamped into the raise bounds; int()
\* truncates, and 0.25 is a quarter, 0.85 is 85 hundredths
raise_ammount(st, my_pips_i, board_cont_cost, pot_total, min_raise, max_raise) ==
    LET target == IF st < 3
                  THEN my_pips_i + board_cont_cost + (pot_total + board_cont_cost) \div 4
                  ELSE my_pips_i + board_cont_cost
                       + (85 * (pot_total + board_cont_cost)) \div 100
        at_least == IF min_raise >= target THEN min_raise ELSE target
    IN  IF max_raise <= at_least THEN max_raise ELSE at_least

commit_unbudgeted(legal, amount, raise_cost, board_cont_cost, budget) ==
    IF "RaiseAction" \in legal THEN <<(<<"RaiseAction", amount>>), raise_cost>>
    ELSE IF "CallAction" \in legal THEN <<(<<"CallAction">>), board_cont_cost>>
    ELSE IF "CheckAction" \in legal THEN <<(<<"CheckAction">>), 0>>
    ELSE <<(<<"FoldAction">>), 0>>

commit_call_unchecked(legal, amount, raise_cost, board_cont_cost, budget) ==
    IF "RaiseAction" \in legal /\ raise_cost <= budget
    THEN <<(<<"RaiseAction", amount>>), raise_cost>>
    ELSE IF board_cont_cost <= budget
    THEN <<(<<"CallAction">>), board_cont_cost>>
    ELSE IF "CheckAction" \in legal THEN <<(<<"CheckAction">>), 0>>
    ELSE <<(<<"FoldAction">>), 0>>

\* lines 359-373: <<commit_action, commit_cost>>; budget is my_stack - net_cost
commit(legal, amount, raise_cost, board_cont_cost, budget) ==
    IF "RaiseAction" \in legal /\ raise_cost <= budget
    THEN <<(<<"RaiseAction", amount>>), raise_cost>>
    ELSE IF "CallAction" \in legal /\ board_cont_cost <= budget
    THEN <<(<<"CallAction">>), board_cont_cost>>
    ELSE IF "CheckAction" \in legal THEN <<(<<"CheckAction">>), 0>>
    ELSE <<(<<"FoldAction">>), 0>>

\* line 379: self.opponent_moves.count(RaiseAction) >= 2
intimidated(moves, i) == list_count(moves, RaiseAction) >= 2

\* max([0, strength - penalty])
Lowered(strength, penalty) == IF strength - penalty >= 0 THEN strength - penalty ELSE 0

\* lines 379-385: the strength after the intimidation adjustments
adjusted_strength(strength, moves, i, board_cont_cost) ==
    LET after_raises == IF intimidated(moves, i) THEN Lowered(strength, 10) ELSE strength
    IN  IF board_cont_cost > 5 THEN Lowered(after_raises, 15) ELSE after_raises

positive_ev_reversed(strength, board_cont_cost, pot_total) ==
    strength * (pot_total + board_cont_cost) <= 100 * board_cont_cost

\* lines 388-390: strength >= pot_odds, pot_odds the continue cost over the
\* pot after the call
positive_ev(strength, board_cont_cost, pot_total) ==
    strength * (pot_total + board_cont_cost) >= 100 * board_cont_cost

\* line 411: random.random() < strength
raises_on_draw(strength, draw) == draw < strength

raises_when_owed_any_strength(strength, draw) == draw < strength

\* line 392: strength > 0.5 and random.random() < strength
raises_when_owed(strength, draw) == strength > 50 /\ draw < strength

\* lines 376-417: <<my_actions[i], what is added to net_cost>>
respond(strength, board_cont_cost, pot_total, draw, committed, budget) ==
    IF board_cont_cost > 0
    THEN IF positive_ev(strength, board_cont_cost, pot_total)
         THEN IF raises_when_owed(strength, draw) THEN committed
              ELSE IF board_cont_cost <= budget
              THEN <<(<<"CallAction">>), board_cont_cost>>
              ELSE <<(<<"FoldAction">>), 0>>
         ELSE <<(<<"FoldAction">>), 0>>
    ELSE IF raises_on_draw(strength, draw) THEN committed
    ELSE <<(<<"CheckAction">>), 0>>

assigned_cards_first(allocations, i) == allocations[1]

\* line 330: the cards assigned to board i
assigned_cards(allocations, i) == allocations[i]

\* lines 314-327: a request for actions arrives; the stack and the street are read
GetActionsBegin(max_calls, stacks, streets) ==
    /\ pc = "round"
    /\ calls < max_calls
    /\ \E a \in 1..Len(stacks) : \E b \in 1..Len(streets) :
          FreshActLocals(stacks[a], streets[b])
    /\ DropAllocLocals
    /\ calls' = calls + 1
    /\ pc' = "acting"
    /\ UNCHANGED <<starting_strengths, player_vars, round_num, cards, key_vars>>

board_done_clearing_strength ==
    /\ board_i' = board_i + 1
    /\ pc' = IF board_i + 1 = NUM_BOARDS THEN "round" ELSE "acting"
    /\ hole_strengths' = [hole_strengths EXCEPT ![board_i + 1] = 0]
    /\ UNCHANGED <<starting_strengths, board_allocations, round_num,
                   calls, alloc_vars, my_stack, street, key_vars>>

\* the loop of line 328 moves to the next board, and line 419 returns after the last
BoardDone ==
    /\ board_i' = board_i + 1
    /\ pc' = IF board_i + 1 = NUM_BOARDS THEN "round" ELSE "acting"
    /\ UNCHANGED <<starting_strengths, board_allocations, hole_strengths, round_num,
                   calls, alloc_vars, my_stack, street, key_vars>>

\* lines 329-331: the board awaits its hole
AssignBoard ==
    /\ pc = "acting"
    /\ LET i == board_i + 1
        IN  /\ my_actions' = [my_actions EXCEPT
                                ![i] = <<"AssignAction", assigned_cards(board_allocations, i)>>]
            /\ board' = [kind |-> "assign", legal |-> {"AssignAction"}, my_pips |-> 0,
                         cont_cost |-> 0, pot_total |-> 0, min_raise |-> 0, max_raise |-> 0,
                         strength |-> 0, net_before |-> net_cost]
    /\ UNCHANGED <<net_cost, opponent_moves>>
    /\ BoardDone

\* lines 333-334: the board is over
TerminalBoard ==
    /\ pc = "acting"
    /\ LET i == board_i + 1
        IN  /\ my_actions' = [my_actions EXCEPT ![i] = <<"CheckAction">>]
            /\ board' = [kind |-> "terminal", legal |-> {"CheckAction"}, my_pips |-> 0,
                         cont_cost |-> 0, pot_total |-> 0, min_raise |-> 0, max_raise |-> 0,
                         strength |-> 0, net_before |-> net_cost]
    /\ UNCHANGED <<net_cost, opponent_moves>>
    /\ BoardDone

\* lines 336-417: a live board.  pips lists the <<my_pips[i], opp_pips[i]>> the
\* engine may report, pots the pots, bounds the <<min_raise, max_raise>>,
\* raising whether a raise may be legal, and draws the values of random.random()
LiveBoard(pips, pots, bounds, raising, draws) ==
    /\ pc = "acting"
    /\ \E a \in 1..Len(pips) : \E c \in 1..Len(pots) : \E d \in 1..Len(bounds) :
       \E e \in 1..Len(raising) : \E f \in 1..Len(draws) :
          LET i == board_i + 1
              raise_allowed == raising[e]
              my_pips_i == pips[a][1]
              opp_pips_i == pips[a][2]
              board_cont_cost == opp_pips_i - my_pips_i
              board_total == pots[c]
              pot_total == my_pips_i + opp_pips_i + board_total
              min_raise == bounds[d][1]
              max_raise == bounds[d][2]
              legal == LegalActions(board_cont_cost, raise_allowed)
              moves == RecordMove(opponent_moves, i, board_cont_cost)
              amount == raise_ammount(street, my_pips_i, board_cont_cost, pot_total,
                                      min_raise, max_raise)
              raise_cost == amount - my_pips_i
              committed == commit(legal, amount, raise_cost, board_cont_cost,
                                  my_stack - net_cost)
              strength == IF board_cont_cost > 0
                          THEN adjusted_strength(hole_strengths[i], moves, i, board_cont_cost)
                          ELSE hole_strengths[i]
              answer == respond(strength, board_cont_cost, pot_total, draws[f], committed,
                                my_stack - net_cost)
          IN  /\ board_cont_cost >= 0
              /\ min_raise <= max_raise
              /\ opponent_moves' = moves
              /\ my_actions' = [my_actions EXCEPT ![i] = answer[1]]
              /\ net_cost' = net_cost + answer[2]
              /\ board' = [kind |-> "live", legal |-> legal, my_pips |-> my_pips_i,
                           cont_cost |-> board_cont_cost, pot_total |-> pot_total,
                           min_raise |-> min_raise, max_raise |-> max_raise,
                           strength |-> strength, net_before |-> net_cost]
    /\ BoardDone

---------------------------------------------------------------------------
(* The engine: rounds of round-start, action requests and round-end *)

\* the values the engine's numbers take over whole rounds
RoundStacks == <<40>>
RoundStreets == <<0>>
RoundPips == << <<0, 10>> >>
RoundPots == <<10>>
RoundBounds == << <<20, 20>> >>
RoundRaising == <<TRUE>>
RoundDraws == <<0, 99>>

\* lines 262-266 under an engine that deals the six cards from DeckOrder's
\* first position in one round and from its second in the next, so that the
\* hand changes from round to round
HandleNewRound ==
    /\ \E first \in 1..2 :
          /\ first = (round_num % 2) + 1
          /\ cards' = CardsAt(first..(first + 2 * NUM_BOARDS - 1))
    /\ AllocatePairs(2 * NUM_BOARDS + 1)

Next ==
    \/ HandleNewRound
    \/ AllocateConnectors
    \/ AllocateFlushes
    \/ AllocateExtras
    \/ AssignHoles
    \/ GetActionsBegin(MaxCalls, RoundStacks, RoundStreets)
    \/ AssignBoard
    \/ TerminalBoard
    \/ LiveBoard(RoundPips, RoundPots, RoundBounds, RoundRaising, RoundDraws)
    \/ HandleRoundOver

Spec == Init /\ [][Next]_vars

---------------------------------------------------------------------------
(* One request for actions, after a round start *)

ActStacks == <<12, 40>>
ActStreets == <<0, 3>>
ActPips == << <<0, 2>>, <<0, 10>>, <<2, 2>>, <<2, 10>> >>
ActPots == <<10>>
ActBounds == << <<4, 20>>, <<20, 20>> >>
ActRaising == <<FALSE, TRUE>>
ActDraws == <<0, 99>>

NextAct ==
    \/ AllocatePairs(2 * NUM_BOARDS)
    \/ AllocateConnectors
    \/ AllocateFlushes
    \/ AllocateExtras
    \/ AssignHoles
    \/ GetActionsBegin(1, ActStacks, ActStreets)
    \/ AssignBoard
    \/ TerminalBoard
    \/ LiveBoard(ActPips, ActPots, ActBounds, ActRaising, ActDraws)

SpecAct == Init /\ [][NextAct]_vars

---------------------------------------------------------------------------
(* hole_list_to_key applied to two holes of the same two ranks *)

SameRanks(h, g) ==
    \/ h[1][1] = g[1][1] /\ h[2][1] = g[2][1]
    \/ h[1][1] = g[2][1] /\ h[2][1] = g[1][1]

Suited(h) == h[1][2] = h[2][2]

\* lines 74-95, called on each of two holes
KeyTwoHoles ==
    /\ pc = "idle"
    /\ key_holes = <<>>
    /\ \E r1, r2 \in 1..13 : \E s1, s2, s3, s4 \in 1..4 : \E flip \in BOOLEAN :
          LET h == << <<RankOrder[r1], SuitOrder[s1]>>, <<RankOrder[r2], SuitOrder[s2]>> >>
              g == IF flip
                   THEN << <<RankOrder[r2], SuitOrder[s3]>>, <<RankOrder[r1], SuitOrder[s4]>> >>
                   ELSE << <<RankOrder[r1], SuitOrder[s3]>>, <<RankOrder[r2], SuitOrder[s4]>> >>
          IN  /\ h[1] # h[2]
              /\ g[1] # g[2]
              /\ key_holes' = <<h, g>>
              /\ key_out' = <<hole_list_to_key(h), hole_list_to_key(g)>>
    /\ UNCHANGED <<starting_strengths, player_vars, pc, round_num, calls, alloc_vars, act_vars>>

NextKey == KeyTwoHoles

SpecKey == Init /\ [][NextKey]_vars

---------------------------------------------------------------------------
(* Claims about allocate_cards, assign_holes and hole_list_to_key *)

\* the cards of a hole are exactly the cards listed in want
HoleIs(hole, want) ==
    /\ Len(hole) = Len(want)
    /\ \A k \in 1..Len(want) : \E m \in 1..Len(hole) : hole[m] = want[k]

\* the cards of a set are exactly the cards listed, without repeats, in want
SetIs(set, want) ==
    /\ Cardinality(set) = Len(want)
    /\ \A k \in 1..Len(want) : want[k] \in set

AllocateReturned == pc = "assign" \/ pc = "assert_failed"

\* C1: when allocate_cards has run on six distinct cards, neither closing
\* assertion has failed, and it returns exactly three holes of two distinct
\* cards each, pairwise disjoint, whose union is the six cards given.
C1_AllocationIsPartition ==
    AllocateReturned =>
        /\ pc = "assign"
        /\ Len(holes_allocated) = 3
        /\ \A k \in 1..Len(holes_allocated) :
              /\ Len(holes_allocated[k]) = 2
              /\ holes_allocated[k][1] # holes_allocated[k][2]
        /\ \A k, m \in 1..Len(holes_allocated) :
              k # m => Range(holes_allocated[k]) \cap Range(holes_allocated[m]) = {}
        /\ HoleCards(holes_allocated) = cards
        /\ Cardinality(cards) = 6
        /\ cards_remaining = {}

\* C1 witness: allocate_cards has returned three holes, the last of them made
\* by the fallback pass out of two cards of different ranks and suits.
C1_Witness ==
    /\ pc = "assign"
    /\ Cardinality(cards) = 6
    /\ Len(holes_allocated) = 3
    /\ holes_allocated[3][1][1] # holes_allocated[3][2][1]
    /\ holes_allocated[3][1][2] # holes_allocated[3][2][2]
    /\ Numeric(holes_allocated[3][1]) - Numeric(holes_allocated[3][2]) > 1

ScenarioHand ==
    << <<"2", "d">>, <<"2", "c">>, <<"9", "s">>, <<"9", "h">>, <<"K", "d">>, <<"A", "s">> >>

Nines == << <<"9", "s">>, <<"9", "h">> >>
AceKing == << <<"A", "s">>, <<"K", "d">> >>
Twos == << <<"2", "c">>, <<"2", "d">> >>

IsScenario == SetIs(cards, ScenarioHand)

AfterConnectors == pc = "flush" \/ pc = "fallback"

\* C8 as stated: on 2d 2c 9s 9h Kd As the pair pass commits only the nines,
\* the connector pass commits only ace-king and leaves the two 2s, which the
\* fallback pass pairs; the final holes are the nines, ace-king and the twos.
C8_AsStated ==
    IsScenario =>
        /\ pc = "connector" =>
              /\ Len(holes_allocated) = 1
              /\ HoleIs(holes_allocated[1], Nines)
        /\ AfterConnectors =>
              /\ Len(holes_allocated) = 2
              /\ HoleIs(holes_allocated[1], Nines)
              /\ HoleIs(holes_allocated[2], AceKing)
              /\ SetIs(cards_remaining, Twos)
        /\ pc = "assign" =>
              /\ Len(holes_allocated) = 3
              /\ HoleIs(holes_allocated[1], Nines)
              /\ HoleIs(holes_allocated[2], AceKing)
              /\ HoleIs(holes_allocated[3], Twos)

\* C8 amended: on 2d 2c 9s 9h Kd As the pair pass commits only the nines (the
\* 2s are released); the connector pass commits ace-king and then the two 2s,
\* which are adjacent in the sorted order with rank difference 0; nothing is
\* left for the flush and fallback passes; the final holes are the nines,
\* ace-king and the twos.
C8_ConnectorPairsTwos ==
    IsScenario =>
        /\ pc = "connector" =>
              /\ Len(holes_allocated) = 1
              /\ HoleIs(holes_allocated[1], Nines)
              /\ SetIs(cards_remaining, AceKing \o Twos)
        /\ (AfterConnectors \/ pc = "assign") =>
              /\ Len(holes_allocated) = 3
              /\ HoleIs(holes_allocated[1], Nines)
              /\ HoleIs(holes_allocated[2], AceKing)
              /\ HoleIs(holes_allocated[3], Twos)
              /\ cards_remaining = {}
        /\ pc # "assert_failed"

\* C8 witness: the scenario's hand right after the connector pass, which has
\* left no card.
C8_Witness ==
    /\ IsScenario
    /\ pc = "flush"
    /\ Len(holes_allocated) = 3
    /\ cards_remaining = {}

Perm3 == << <<1, 2, 3>>, <<1, 3, 2>>, <<2, 1, 3>>, <<2, 3, 1>>, <<3, 1, 2>>, <<3, 2, 1>> >>

\* C3: when assign_holes has run, board_allocations is a permutation of the
\* three holes it was given, and hole_strengths[i] is the table strength of
\* the hole in board_allocations[i], whatever the two swap draws were.
C3_AssignIsPermutation ==
    pc = "round" =>
        /\ \E n \in 1..6 :
              \A i \in 1..NUM_BOARDS : board_allocations[i] = holes_allocated[Perm3[n][i]]
        /\ \A i \in 1..NUM_BOARDS :
              hole_strengths[i]
                  = TableLookup(starting_strengths, hole_list_to_key(board_allocations[i]))

\* C3 witness: assign_holes has run and a swap has put a stronger hole before
\* a weaker one.
C3_Witness ==
    /\ pc = "round"
    /\ hole_strengths[2] > hole_strengths[3]
    /\ board_allocations[2] # board_allocations[3]

\* C7: two holes with the same unordered pair of ranks and the same
\* suited/offsuit status get the same key, whatever the order of the two
\* cards and whatever the suits are, equal ranks included; the key is the
\* higher rank, the lower rank, then "s" or "o".
C7_KeyInvariant ==
    key_holes # <<>> =>
        LET h == key_holes[1]
            g == key_holes[2]
        IN  /\ (SameRanks(h, g) /\ Suited(h) = Suited(g)) => key_out[1] = key_out[2]
            /\ Numeric(<<key_out[1][1]>>) >= Numeric(<<key_out[1][2]>>)
            /\ \/ key_out[1][1] = h[1][1] /\ key_out[1][2] = h[2][1]
               \/ key_out[1][1] = h[2][1] /\ key_out[1][2] = h[1][1]
            /\ key_out[1][3] = (IF Suited(h) THEN "s" ELSE "o")

\* C7 witness: two offsuit holes of the same two different ranks, given in
\* opposite card order and in different suits, with equal keys.
C7_Witness ==
    /\ key_holes # <<>>
    /\ key_holes[1][1][1] = key_holes[2][2][1]
    /\ key_holes[1][2][1] = key_holes[2][1][1]
    /\ key_holes[1][1][1] # key_holes[1][2][1]
    /\ ~Suited(key_holes[1]) /\ ~Suited(key_holes[2])
    /\ {key_holes[1][1][2], key_holes[1][2][2]} \cap {key_holes[2][1][2], key_holes[2][2][2]} = {}
    /\ key_out[1][1] = key_holes[1][2][1]
    /\ key_out[1] = key_out[2]

---------------------------------------------------------------------------
(* get_actions: the board the loop has just handled is board_i, and board *)
(* records what the engine reported for it                                 *)

Handled == board.kind # "none"

Returned == pc = "round" /\ board_i = NUM_BOARDS

\* C2: within one get_actions call, after each board is processed, net_cost
\* is at most my_stack, the stack at the start of the call: what is committed
\* on a board is at most my_stack less what earlier boards committed.
C2_NetCostWithinStack ==
    Handled =>
        /\ net_cost <= my_stack
        /\ net_cost - board.net_before <= my_stack - board.net_before

\* C2 witness: a call has returned with chips committed on an earlier board,
\* and on its last board a legal raise cost more than what was left.
C2_Witness ==
    /\ Returned
    /\ board.kind = "live"
    /\ "RaiseAction" \in board.legal
    /\ board.net_before > 0
    /\ board.min_raise - board.my_pips > my_stack - board.net_before
    /\ my_actions[board_i][1] # "RaiseAction"

\* C5: every get_actions call returns an action for each of the three
\* boards; the action is an AssignAction exactly for the boards whose legal
\* actions contain AssignAction, it carries the hole stored for that board at
\* round start, and such a board adds nothing to net_cost.
C5_OneActionPerBoard ==
    /\ Handled =>
          /\ my_actions[board_i][1] # "None"
          /\ my_actions[board_i][1] = "AssignAction" <=> "AssignAction" \in board.legal
          /\ "AssignAction" \in board.legal =>
                /\ my_actions[board_i] = <<"AssignAction", board_allocations[board_i]>>
                /\ net_cost = board.net_before
    /\ Returned =>
          /\ Len(my_actions) = NUM_BOARDS
          /\ \A i \in 1..NUM_BOARDS : my_actions[i][1] # "None"

\* C5 witness: a call has returned a raise for the first board and the stored
\* hole for the last one, which awaited its assignment.
C5_Witness ==
    /\ Returned
    /\ board.kind = "assign"
    /\ my_actions[1][1] = "RaiseAction"
    /\ net_cost > 0
    /\ my_actions[3][2] = board_allocations[3]
    /\ board_allocations[3] # board_allocations[1]

\* C6: on a live board with continue cost above 0, when the strength after
\* the intimidation adjustments is below the pot odds,
\* continue_cost / (pot_total + continue_cost), the action is a fold and
\* net_cost is unchanged, whatever the draw, the legal actions and the budget.
C6_FoldBelowPotOdds ==
    (/\ board.kind = "live"
     /\ board.cont_cost > 0
     /\ board.strength * (board.pot_total + board.cont_cost) < 100 * board.cont_cost)
        => /\ my_actions[board_i][1] = "FoldAction"
           /\ net_cost = board.net_before

\* C6 witness: continue cost 10, pot total 20 and adjusted strength 0.2 on a
\* board where a raise was legal and affordable, answered by a fold.
C6_Witness ==
    /\ board.kind = "live"
    /\ board.cont_cost = 10
    /\ board.pot_total = 20
    /\ board.strength = 20
    /\ "RaiseAction" \in board.legal
    /\ board.max_raise - board.my_pips <= my_stack - board.net_before
    /\ my_actions[board_i][1] = "FoldAction"

\* C10: on every live board the action get_actions gives is one of the
\* board's legal actions, also when earlier boards of the call have used up
\* the stack: the entry is never illegal and never unset.
C10_ActionIsLegal ==
    board.kind = "live" => my_actions[board_i][1] \in board.legal

\* C10 witness: earlier boards have spent the stack down below the continue
\* cost of a board where the hand was worth continuing, and the answer is the
\* legal fold.
C10_Witness ==
    /\ board.kind = "live"
    /\ board.net_before > 0
    /\ board.cont_cost > my_stack - board.net_before
    /\ board.strength * (board.pot_total + board.cont_cost) >= 100 * board.cont_cost
    /\ "RaiseAction" \in board.legal
    /\ my_actions[board_i][1] = "FoldAction"

\* C4: after handle_round_over every board allocation is empty, every
\* strength is 0 and the opponent-move history of every board is empty.
C4_StateResetAtRoundOver ==
    pc = "idle" =>
        /\ board_allocations = EmptyBoards
        /\ hole_strengths = <<0, 0, 0>>
        /\ \A i \in 1..NUM_BOARDS : opponent_moves[i][2] = <<>>

\* the opponent's recorded raises on board i number at least two
raised_twice_on_board(moves, i) == list_count(moves[i][2], RaiseAction) >= 2

\* C9: on a live board with continue cost above 0, the strength compared with
\* the pot odds is the hole's strength less 0.1 when the opponent has been
\* recorded raising on that board at least twice, the current request
\* included, and less a further 0.15 when the continue cost is above 5, each
\* floored at 0.
C9_IntimidationAfterTwoRaises ==
    (board.kind = "live" /\ board.cont_cost > 0) =>
        LET after_raises == IF raised_twice_on_board(opponent_moves, board_i)
                            THEN Lowered(hole_strengths[board_i], 10)
                            ELSE hole_strengths[board_i]
        IN  board.strength = (IF board.cont_cost > 5
                              THEN Lowered(after_raises, 15)
                              ELSE after_raises)

\* C11: whenever get_actions gives a RaiseAction for a board, RaiseAction is
\* among the board's legal actions, the amount lies between the board's
\* min_raise and max_raise, and amount minus own pips is at most my_stack
\* less the net_cost of the earlier boards.
C11_RaiseWithinBounds ==
    (Handled /\ my_actions[board_i][1] = "RaiseAction") =>
        /\ board.kind = "live"
        /\ "RaiseAction" \in board.legal
        /\ board.min_raise <= my_actions[board_i][2]
        /\ my_actions[board_i][2] <= board.max_raise
        /\ my_actions[board_i][2] - board.my_pips <= my_stack - board.net_before

\* C11 witness: after chips went to an earlier board, a raise whose target
\* was above max_raise is made to max_raise, with min_raise below it.
C11_Witness ==
    /\ board.kind = "live"
    /\ my_actions[board_i][1] = "RaiseAction"
    /\ board.net_before > 0
    /\ board.min_raise < board.max_raise
    /\ my_actions[board_i][2] = board.max_raise
    /\ street >= 3

\* C12: on a live board with continue cost above 0 whose adjusted strength
\* is at least the pot odds and at most 0.5, the answer is a call adding the
\* continue cost to net_cost when the continue cost is within my_stack less
\* net_cost, and otherwise a fold adding nothing; a raise on a board with
\* continue cost above 0 needs an adjusted strength above 0.5.
C12_NoRaiseAtHalfOrBelow ==
    /\ (/\ board.kind = "live"
        /\ board.cont_cost > 0
        /\ board.strength * (board.pot_total + board.cont_cost) >= 100 * board.cont_cost
        /\ board.strength <= 50)
          => IF board.cont_cost <= my_stack - board.net_before
             THEN /\ my_actions[board_i][1] = "CallAction"
                  /\ net_cost = board.net_before + board.cont_cost
             ELSE /\ my_actions[board_i][1] = "FoldAction"
                  /\ net_cost = board.net_before
    /\ (/\ board.kind = "live"
        /\ board.cont_cost > 0
        /\ my_actions[board_i][1] = "RaiseAction")
          => board.strength > 50

\* C12 witness: adjusted strength exactly 0.5, above the pot odds, on a board
\* where a raise was legal and within the budget, answered by a call.
C12_Witness ==
    /\ board.kind = "live"
    /\ board.cont_cost > 0
    /\ board.strength = 50
    /\ "RaiseAction" \in board.legal
    /\ board.max_raise - board.my_pips <= my_stack - board.net_before
    /\ my_actions[board_i][1] = "CallAction"
    /\ net_cost = board.net_before + board.cont_cost

\* C14: when the three strengths are distinct, assign_holes leaves one of
\* four orders on boards 0, 1, 2: (weak, mid, strong), (weak, strong, mid),
\* (mid, weak, strong) or (strong, weak, mid); the weakest hole is never on
\* board 2, so the reversed order (strong, mid, weak) never comes out.
C14_FourOrdersOnly ==
    (/\ pc = "round"
     /\ hole_strengths[1] # hole_strengths[2]
     /\ hole_strengths[2] # hole_strengths[3]
     /\ hole_strengths[1] # hole_strengths[3])
        => /\ \/ hole_strengths[1] < hole_strengths[2] /\ hole_strengths[2] < hole_strengths[3]
              \/ hole_strengths[1] < hole_strengths[3] /\ hole_strengths[3] < hole_strengths[2]
              \/ hole_strengths[2] < hole_strengths[1] /\ hole_strengths[1] < hole_strengths[3]
              \/ hole_strengths[2] < hole_strengths[3] /\ hole_strengths[3] < hole_strengths[1]
           /\ ~(hole_strengths[3] < hole_strengths[1] /\ hole_strengths[3] < hole_strengths[2])

\* C14 witness: both swaps were made on three holes of distinct strengths,
\* leaving (strong, weak, mid).
C14_Witness ==
    /\ pc = "round"
    /\ holes_allocated # <<>>
    /\ hole_strengths[2] < hole_strengths[3]
    /\ hole_strengths[3] < hole_strengths[1]

\* what holds while a round is being played: the three holes on the boards
\* are made of the round's six cards and the strengths are their table values
OfThisRound ==
    /\ \A i \in 1..NUM_BOARDS : Len(board_allocations[i]) = 2
    /\ HoleCards(board_allocations) = cards
    /\ Cardinality(cards) = 2 * NUM_BOARDS
    /\ \A i \in 1..NUM_BOARDS :
          hole_strengths[i]
              = TableLookup(starting_strengths, hole_list_to_key(board_allocations[i]))

\* the assign action and the strength of the board just handled come from
\* board_allocations and hole_strengths
UsesStored ==
    /\ board.kind = "assign" => my_actions[board_i][2] = board_allocations[board_i]
    /\ (board.kind = "live" /\ board.cont_cost = 0) =>
          board.strength = hole_strengths[board_i]
    /\ (board.kind = "live" /\ board.cont_cost > 0) =>
          board.strength = adjusted_strength(hole_strengths[board_i], opponent_moves,
                                             board_i, board.cont_cost)

\* a step that changes board_allocations or hole_strengths is the end of
\* round-start (assign_holes) or is round-end
WrittenByRoundStartOrEnd ==
    (board_allocations' # board_allocations \/ hole_strengths' # hole_strengths)
        => \/ pc = "assign" /\ pc' = "round"
           \/ pc = "round" /\ pc' = "idle"

\* C13: over rounds of round-start, action requests and round-end, only
\* round-start and round-end write board_allocations and hole_strengths,
\* get_actions leaves them unchanged, and every assign action and every
\* strength used in a round is the one computed from that round's six cards.
C13_RoundStateIsThisRounds ==
    /\ []((pc = "acting" \/ Handled) => (OfThisRound /\ (Handled => UsesStored)))
    /\ [][WrittenByRoundStartOrEnd]_vars

\* C13 witness: in the second round a request has been answered with the
\* stored hole for board 0, whose history holds a move from an earlier request,
\* and with an action for a live last board.
C13_Witness ==
    /\ round_num = 2
    /\ Returned
    /\ my_actions[1][1] = "AssignAction"
    /\ opponent_moves[1][2] # <<>>
    /\ board.kind = "live"
    /\ OfThisRound

=============================================================================
